---- MODULE Spec2Model ----
(***************************************************************************)
(* Model of the TSL2561 light-to-digital converter driver (tsl2561.c).     *)
(* One action per public function; every action is the whole call, with    *)
(* the outcome of each SMBus transaction chosen by the environment.  The   *)
(* session is used by one caller, one call at a time: `call' is the        *)
(* caller's position, either between calls or holding the result of the    *)
(* call that has just returned, with its arguments and the session as it   *)
(* was before; `log' is the sequence of bus transactions and delays that   *)
(* call issued, and `out' what it stored through its output pointers.      *)
(***************************************************************************)
EXTENDS Integers, Sequences, FiniteSets, TLC

VARIABLES tsl2561_info, device, portTICK_RATE_MS, call, log, out

vars == <<tsl2561_info, device, portTICK_RATE_MS, call, log, out>>

(* ------------------------------ bounds --------------------------------- *)
MaxTickPeriod == 4          \* tick periods 1..MaxTickPeriod milliseconds, and 10
MaxIntegrationCode == 3     \* integration_time arguments 0..MaxIntegrationCode (above 2: out of range)
MaxHandle == 1              \* SMBus handles 1..MaxHandle (0 is the NULL of memset)

\* portTICK_RATE_MS of the build: 10 is the 100 Hz tick
TickPeriods == (1 .. MaxTickPeriod) \cup {10}
IntegrationTimes == 0 .. MaxIntegrationCode
SmbusHandles == 1 .. MaxHandle
\* identification bytes the bus returns: one for each recognised package
\* (0x00, 0x1A, 0x45, 0x50), two unrecognised ones (0x20, 0x8A) and 0xFF, whose
\* upper bits equal the INVALID sentinel
IdBytes == {0, 26, 32, 69, 80, 138, 255}
ChannelSamples == {0, 1, 100, 1000, 65535}
\* <<visible, infrared>> arguments of tsl2561_compute_lux: darkness; channel 0
\* = 1000 with channel 1 in each segment of the coefficient tables; the
\* largest counts of the three integration times; sums above 16 bits
LuxSamples == {<<0, 0>>, <<900, 100>>, <<800, 200>>, <<700, 300>>, <<550, 450>>,
               <<450, 550>>, <<380, 620>>, <<300, 700>>, <<100, 900>>, <<0, 1000>>,
               <<1047, 4000>>, <<5047, 0>>, <<37177, 0>>, <<65535, 0>>,
               <<16866, 10000>>, <<65535, 65535>>}

(* --------------------------- program constants ------------------------- *)
REG_CONTROL == 0
REG_TIMING == 1
REG_ID == 10
REG_DATA0LOW == 12
REG_DATA1LOW == 14
SMB_WORD == 32
SMB_COMMAND == 128
TSL2561_CONTROL_POWER_UP == 3
TSL2561_CONTROL_POWER_DOWN == 0

TSL2561_DEVICE_TYPE_INVALID == 15
TSL2561_DEVICE_TYPE_TSL2560CS == 0
TSL2561_DEVICE_TYPE_TSL2561CS == 1
TSL2561_DEVICE_TYPE_TSL2560T_FN_CL == 4
TSL2561_DEVICE_TYPE_TSL2561T_FN_CL == 5

TSL2561_INTEGRATION_TIME_13MS == 0
TSL2561_INTEGRATION_TIME_101MS == 1
TSL2561_INTEGRATION_TIME_402MS == 2
TSL2561_GAIN_1X == 0
TSL2561_GAIN_16X == 16
DEFAULT_INTEGRATION_TIME == TSL2561_INTEGRATION_TIME_402MS
DEFAULT_GAIN == TSL2561_GAIN_1X

\* channel scaling and the coefficient tables of tsl2561_compute_lux
CH_SCALE == 10
CH_SCALE_TINT0 == 29975    \* 0x7517
CH_SCALE_TINT1 == 4071    \* 0x0FE7
RATIO_SCALE == 9
LUX_SCALE == 14
TSL2561_K1T == 64    \* 0x0040
TSL2561_B1T == 498    \* 0x01F2
TSL2561_M1T == 446    \* 0x01BE
TSL2561_K2T == 128    \* 0x0080
TSL2561_B2T == 532    \* 0x0214
TSL2561_M2T == 721    \* 0x02D1
TSL2561_K3T == 192    \* 0x00C0
TSL2561_B3T == 575    \* 0x023F
TSL2561_M3T == 891    \* 0x037B
TSL2561_K4T == 256    \* 0x0100
TSL2561_B4T == 624    \* 0x0270
TSL2561_M4T == 1022    \* 0x03FE
TSL2561_K5T == 312    \* 0x0138
TSL2561_B5T == 367    \* 0x016F
TSL2561_M5T == 508    \* 0x01fC
TSL2561_K6T == 410    \* 0x019A
TSL2561_B6T == 210    \* 0x00D2
TSL2561_M6T == 251    \* 0x00FB
TSL2561_K7T == 666    \* 0x029A
TSL2561_B7T == 24    \* 0x0018
TSL2561_M7T == 18    \* 0x0012
TSL2561_K8T == 666    \* 0x029A
TSL2561_B8T == 0    \* 0x0000
TSL2561_M8T == 0    \* 0x0000
TSL2561_K1C == 67    \* 0x0043
TSL2561_B1C == 516    \* 0x0204
TSL2561_M1C == 429    \* 0x01AD
TSL2561_K2C == 133    \* 0x0085
TSL2561_B2C == 552    \* 0x0228
TSL2561_M2C == 705    \* 0x02C1
TSL2561_K3C == 200    \* 0x00C8
TSL2561_B3C == 595    \* 0x0253
TSL2561_M3C == 867    \* 0x0363
TSL2561_K4C == 266    \* 0x010A
TSL2561_B4C == 642    \* 0x0282
TSL2561_M4C == 991    \* 0x03DF
TSL2561_K5C == 333    \* 0x014D
TSL2561_B5C == 375    \* 0x0177
TSL2561_M5C == 477    \* 0x01DD
TSL2561_K6C == 410    \* 0x019A
TSL2561_B6C == 257    \* 0x0101
TSL2561_M6C == 295    \* 0x0127
TSL2561_K7C == 666    \* 0x029A
TSL2561_B7C == 55    \* 0x0037
TSL2561_M7C == 43    \* 0x002B
TSL2561_K8C == 666    \* 0x029A
TSL2561_B8C == 0    \* 0x0000
TSL2561_M8C == 0    \* 0x0000

Gains == {TSL2561_GAIN_1X, TSL2561_GAIN_16X}

ESP_OK == "ESP_OK"
ESP_FAIL == "ESP_FAIL"
ESP_ERR_TIMEOUT == "ESP_ERR_TIMEOUT"
\* the result recorded for a call that returns no esp_err_t
NoErr == "none"
\* what one SMBus transaction can return
BusResults == {ESP_OK, ESP_FAIL, ESP_ERR_TIMEOUT}

\* content of an output variable the call has not stored to
Unwritten == -1

(* ----------------------------- helpers --------------------------------- *)
RECURSIVE BitOr(_, _)
\* the C operator | on non-negative integers
BitOr(a, b) ==
    IF a = 0 THEN b
    ELSE IF b = 0 THEN a
    ELSE (IF a % 2 = 1 \/ b % 2 = 1 THEN 1 ELSE 0) + 2 * BitOr(a \div 2, b \div 2)

\* one entry of the call's trace: an SMBus transaction or a vTaskDelay, with
\* the session's powered flag at the time it is issued
Tx(st, kind, reg, val, err) ==
    [kind |-> kind, reg |-> reg, val |-> val, err |-> err, powered |-> st.info.powered]

NoOut == [device |-> Unwritten, revision |-> Unwritten,
          visible |-> Unwritten, infrared |-> Unwritten, lux |-> Unwritten]

\* the struct after tsl2561_malloc's memset
ZeroInfo == [init |-> FALSE, powered |-> FALSE, smbus_info |-> 0,
             device_type |-> 0, integration_time |-> 0, gain |-> 0]

\* the working state threaded through one call
Start(info, dev) == [info |-> info, device |-> dev, log |-> <<>>, out |-> NoOut, err |-> ESP_FAIL]

(* --------------------- SMBus and scheduler primitives ------------------ *)
\* `device' holds the device's control register.  A successful write to it
\* stores the byte; a failed write leaves the device as it was.
smbus_write_byte(st, command, data, e) ==
    [st EXCEPT !.device = IF e = ESP_OK /\ (command % 16) \in DOMAIN @
                          THEN [@ EXCEPT ![command % 16] = data % 256] ELSE @,
               !.log = Append(@, Tx(st, "write_byte", command, data % 256, e)),
               !.err = e]

smbus_read_byte(st, command, e, data) ==
    [st EXCEPT !.log = Append(@, Tx(st, "read_byte", command, data, e)), !.err = e]

smbus_read_word(st, command, e, data) ==
    [st EXCEPT !.log = Append(@, Tx(st, "read_word", command, data, e)), !.err = e]

vTaskDelay(st, ticks) ==
    [st EXCEPT !.log = Append(@, Tx(st, "vTaskDelay", 0, ticks, ESP_OK))]

(* ------------------------------ driver --------------------------------- *)
\* mutant: the gate forgets the init flag
_is_init_no_flag(null, info) == ~null

_is_init(null, info) == ~null /\ info.init

\* mutant: every package encoding is accepted
_check_device_id_any(dev) == dev \in 0 .. 15

_check_device_id(dev) ==
    dev \in {TSL2561_DEVICE_TYPE_TSL2560CS, TSL2561_DEVICE_TYPE_TSL2561CS,
             TSL2561_DEVICE_TYPE_TSL2560T_FN_CL, TSL2561_DEVICE_TYPE_TSL2561T_FN_CL}

\* mutant: the power-up write is issued even when the session is powered
_power_up_always(st, e) ==
    LET w == smbus_write_byte(st, BitOr(REG_CONTROL, SMB_COMMAND), TSL2561_CONTROL_POWER_UP, e)
    IN  IF w.err = ESP_OK THEN [w EXCEPT !.info.powered = TRUE] ELSE w

\* mutant: a successful power-up write does not set the flag
_power_up_no_flag(st, e) ==
    IF ~st.info.powered
    THEN smbus_write_byte(st, BitOr(REG_CONTROL, SMB_COMMAND), TSL2561_CONTROL_POWER_UP, e)
    ELSE [st EXCEPT !.err = ESP_OK]

_power_up(st, e) ==
    IF ~st.info.powered
    THEN LET w == smbus_write_byte(st, BitOr(REG_CONTROL, SMB_COMMAND), TSL2561_CONTROL_POWER_UP, e)
         IN  IF w.err = ESP_OK THEN [w EXCEPT !.info.powered = TRUE] ELSE w
    ELSE [st EXCEPT !.err = ESP_OK]

\* mutant: the power-down write succeeds but the flag is not cleared
_power_down_keeps_flag(st, e) ==
    IF st.info.powered
    THEN smbus_write_byte(st, BitOr(REG_CONTROL, SMB_COMMAND), TSL2561_CONTROL_POWER_DOWN, e)
    ELSE [st EXCEPT !.err = ESP_OK]

_power_down(st, e) ==
    IF st.info.powered
    THEN LET w == smbus_write_byte(st, BitOr(REG_CONTROL, SMB_COMMAND), TSL2561_CONTROL_POWER_DOWN, e)
         IN  IF w.err = ESP_OK THEN [w EXCEPT !.info.powered = FALSE] ELSE w
    ELSE [st EXCEPT !.err = ESP_OK]

\* mutant: the session fields are updated whether or not the write succeeded
_set_integration_time_and_gain_eager(st, integration_time, gain, e) ==
    IF st.info.powered
    THEN LET w == smbus_write_byte(st, BitOr(REG_TIMING, SMB_COMMAND), BitOr(integration_time, gain), e)
         IN  [w EXCEPT !.info.integration_time = integration_time, !.info.gain = gain]
    ELSE [st EXCEPT !.err = ESP_FAIL]

\* mutant: the gain code is left out of the timing byte
_set_integration_time_and_gain_no_gain(st, integration_time, gain, e) ==
    IF st.info.powered
    THEN LET w == smbus_write_byte(st, BitOr(REG_TIMING, SMB_COMMAND), integration_time, e)
         IN  IF w.err = ESP_OK
             THEN [w EXCEPT !.info.integration_time = integration_time, !.info.gain = gain]
             ELSE w
    ELSE [st EXCEPT !.err = ESP_FAIL]

_set_integration_time_and_gain(st, integration_time, gain, e) ==
    IF st.info.powered
    THEN LET w == smbus_write_byte(st, BitOr(REG_TIMING, SMB_COMMAND), BitOr(integration_time, gain), e)
         IN  IF w.err = ESP_OK
             THEN [w EXCEPT !.info.integration_time = integration_time, !.info.gain = gain]
             ELSE w
    ELSE [st EXCEPT !.err = ESP_FAIL]

\* mutant: the two halves of the ID byte are exchanged
tsl2561_device_id_swapped(st, null, outNull, e, id) ==
    IF _is_init(null, st.info) /\ ~outNull
    THEN LET r == smbus_read_byte(st, BitOr(REG_ID, SMB_COMMAND), e, id)
         IN  IF r.err = ESP_OK
             THEN [r EXCEPT !.out.device = id % 16, !.out.revision = (id \div 16) % 16]
             ELSE r
    ELSE [st EXCEPT !.err = ESP_FAIL]

\* mutant: the decoded package type is also stored in the session
tsl2561_device_id_stores(st, null, outNull, e, id) ==
    IF _is_init(null, st.info) /\ ~outNull
    THEN LET r == smbus_read_byte(st, BitOr(REG_ID, SMB_COMMAND), e, id)
         IN  IF r.err = ESP_OK
             THEN [r EXCEPT !.out.device = (id \div 16) % 16, !.out.revision = id % 16,
                            !.info.device_type = (id \div 16) % 16]
             ELSE r
    ELSE [st EXCEPT !.err = ESP_FAIL]

\* tsl2561_device_id: outNull is "device or revision is a NULL pointer"
tsl2561_device_id(st, null, outNull, e, id) ==
    IF _is_init(null, st.info) /\ ~outNull
    THEN LET r == smbus_read_byte(st, BitOr(REG_ID, SMB_COMMAND), e, id)
         IN  IF r.err = ESP_OK
             THEN [r EXCEPT !.out.device = (id \div 16) % 16, !.out.revision = id % 16]
             ELSE r
    ELSE [st EXCEPT !.err = ESP_FAIL]

\* mutant: the power and configuration fields are not reset to their defaults
tsl2561_init_no_reset(st, null, smbus_info, e, id) ==
    IF ~null
    THEN LET s1 == [st EXCEPT !.info.init = TRUE, !.info.smbus_info = smbus_info,
                              !.info.device_type = TSL2561_DEVICE_TYPE_INVALID]
             r  == tsl2561_device_id(s1, FALSE, FALSE, e, id)
             s2 == IF r.err = ESP_OK /\ _check_device_id(r.out.device)
                   THEN [r EXCEPT !.info.device_type = r.out.device, !.err = ESP_OK]
                   ELSE r
         IN  [s2 EXCEPT !.out = NoOut]
    ELSE [st EXCEPT !.err = ESP_FAIL]

tsl2561_init(st, null, smbus_info, e, id) ==
    IF ~null
    THEN LET s1 == [st EXCEPT !.info = [init |-> TRUE, powered |-> FALSE,
                                        smbus_info |-> smbus_info,
                                        device_type |-> TSL2561_DEVICE_TYPE_INVALID,
                                        integration_time |-> DEFAULT_INTEGRATION_TIME,
                                        gain |-> DEFAULT_GAIN]]
             \* device_type and revision are locals of tsl2561_init
             r  == tsl2561_device_id(s1, FALSE, FALSE, e, id)
             s2 == IF r.err = ESP_OK /\ _check_device_id(r.out.device)
                   THEN [r EXCEPT !.info.device_type = r.out.device, !.err = ESP_OK]
                   ELSE r
         IN  [s2 EXCEPT !.out = NoOut]
    ELSE [st EXCEPT !.err = ESP_FAIL]

\* the switch of tsl2561_read: minimum wait in milliseconds
ReadDelay(integration_time) ==
    CASE integration_time = TSL2561_INTEGRATION_TIME_13MS -> 15
      [] integration_time = TSL2561_INTEGRATION_TIME_101MS -> 120
      [] OTHER -> 450

\* mutant: the division rounds down
DelayTicks_round_down(delay, tick) == delay \div tick

\* the argument of vTaskDelay: (delay - 1) / portTICK_RATE_MS + 1.  It is a
\* 32-bit TickType_t; delay is at most 450, so the value never wraps.
DelayTicks(delay, tick) == ((delay - 1) \div tick) + 1

\* mutant: a failed channel read is followed by a power-down
tsl2561_read_cleanup(st, null, outNull, tick, e1, e2, e3, e4, v0, v1) ==
    IF _is_init(null, st.info) /\ ~outNull
    THEN LET p == _power_up(st, e1)
         IN  IF p.err = ESP_OK
             THEN LET d  == vTaskDelay(p, DelayTicks(ReadDelay(p.info.integration_time), tick))
                      r0 == smbus_read_word(d, BitOr(BitOr(REG_DATA0LOW, SMB_COMMAND), SMB_WORD), e2, v0)
                      r1 == smbus_read_word(r0, BitOr(BitOr(REG_DATA1LOW, SMB_COMMAND), SMB_WORD), e3, v1)
                      q  == _power_down(r1, e4)
                  IN  IF r0.err = ESP_OK
                      THEN IF r1.err = ESP_OK
                           THEN IF q.err = ESP_OK
                                THEN [q EXCEPT !.out.visible = (v0 - v1) % 65536,
                                               !.out.infrared = v1]
                                ELSE q
                           ELSE [_power_down(r1, ESP_OK) EXCEPT !.err = r1.err]
                      ELSE [_power_down(r0, ESP_OK) EXCEPT !.err = r0.err]
             ELSE p
    ELSE [st EXCEPT !.err = ESP_FAIL]

\* mutant: visible is clamped to 0 when channel 1 exceeds channel 0
tsl2561_read_clamped(st, null, outNull, tick, e1, e2, e3, e4, v0, v1) ==
    IF _is_init(null, st.info) /\ ~outNull
    THEN LET p == _power_up(st, e1)
         IN  IF p.err = ESP_OK
             THEN LET d  == vTaskDelay(p, DelayTicks(ReadDelay(p.info.integration_time), tick))
                      r0 == smbus_read_word(d, BitOr(BitOr(REG_DATA0LOW, SMB_COMMAND), SMB_WORD), e2, v0)
                      r1 == smbus_read_word(r0, BitOr(BitOr(REG_DATA1LOW, SMB_COMMAND), SMB_WORD), e3, v1)
                      q  == _power_down(r1, e4)
                  IN  IF r0.err = ESP_OK
                      THEN IF r1.err = ESP_OK
                           THEN IF q.err = ESP_OK
                                THEN [q EXCEPT !.out.visible = IF v1 > v0 THEN 0 ELSE v0 - v1,
                                               !.out.infrared = v1]
                                ELSE q
                           ELSE r1
                      ELSE r0
             ELSE p
    ELSE [st EXCEPT !.err = ESP_FAIL]

tsl2561_read(st, null, outNull, tick, e1, e2, e3, e4, v0, v1) ==
    IF _is_init(null, st.info) /\ ~outNull
    THEN LET p == _power_up(st, e1)
         IN  IF p.err = ESP_OK
             THEN LET d  == vTaskDelay(p, DelayTicks(ReadDelay(p.info.integration_time), tick))
                      r0 == smbus_read_word(d, BitOr(BitOr(REG_DATA0LOW, SMB_COMMAND), SMB_WORD), e2, v0)
                      r1 == smbus_read_word(r0, BitOr(BitOr(REG_DATA1LOW, SMB_COMMAND), SMB_WORD), e3, v1)
                      q  == _power_down(r1, e4)
                  IN  IF r0.err = ESP_OK
                      THEN IF r1.err = ESP_OK
                           THEN IF q.err = ESP_OK
                                THEN [q EXCEPT !.out.visible = (v0 - v1) % 65536,
                                               !.out.infrared = v1]
                                ELSE q
                           ELSE r1
                      ELSE r0
             ELSE p
    ELSE [st EXCEPT !.err = ESP_FAIL]

\* mutant: the timing-write error takes precedence over the power-down error
tsl2561_set_integration_time_and_gain_write_first(st, null, integration_time, gain, e1, e2, e3) ==
    IF _is_init(null, st.info)
    THEN LET p == _power_up(st, e1)
         IN  IF p.err = ESP_OK
             THEN LET s  == _set_integration_time_and_gain(p, integration_time, gain, e2)
                      s2 == IF s.err = ESP_OK
                            THEN [s EXCEPT !.info.integration_time = integration_time,
                                           !.info.gain = gain]
                            ELSE s
                      q  == _power_down(s2, e3)
                  IN  [q EXCEPT !.err = IF s.err # ESP_OK THEN s.err ELSE q.err]
             ELSE p
    ELSE [st EXCEPT !.err = ESP_FAIL]

\* mutant: Configure waits one tick after the power-up
tsl2561_set_integration_time_and_gain_waits(st, null, integration_time, gain, e1, e2, e3) ==
    IF _is_init(null, st.info)
    THEN LET p == _power_up(st, e1)
         IN  IF p.err = ESP_OK
             THEN LET s  == _set_integration_time_and_gain(vTaskDelay(p, 1), integration_time, gain, e2)
                      s2 == IF s.err = ESP_OK
                            THEN [s EXCEPT !.info.integration_time = integration_time,
                                           !.info.gain = gain]
                            ELSE s
                      q  == _power_down(s2, e3)
                  IN  [q EXCEPT !.err = IF q.err # ESP_OK THEN q.err ELSE s.err]
             ELSE p
    ELSE [st EXCEPT !.err = ESP_FAIL]

tsl2561_set_integration_time_and_gain(st, null, integration_time, gain, e1, e2, e3) ==
    IF _is_init(null, st.info)
    THEN LET p == _power_up(st, e1)
         IN  IF p.err = ESP_OK
             THEN LET s  == _set_integration_time_and_gain(p, integration_time, gain, e2)
                      s2 == IF s.err = ESP_OK
                            THEN [s EXCEPT !.info.integration_time = integration_time,
                                           !.info.gain = gain]
                            ELSE s
                      q  == _power_down(s2, e3)
                  IN  [q EXCEPT !.err = IF q.err # ESP_OK THEN q.err ELSE s.err]
             ELSE p
    ELSE [st EXCEPT !.err = ESP_FAIL]

(* ------------------------- tsl2561_compute_lux ------------------------- *)
\* The function computes in uint32_t.  TLC's integers end at 2^31 - 1, so a
\* value that can reach 2^31 is never formed: it is held as its quotient and
\* remainder by a power of two, which gives the same 32-bit result.

\* the switch on integration_time and the shift for 1x gain
ChannelScale(integration_time, gain) ==
    LET scale == CASE integration_time = TSL2561_INTEGRATION_TIME_13MS -> CH_SCALE_TINT0
                   [] integration_time = TSL2561_INTEGRATION_TIME_101MS -> CH_SCALE_TINT1
                   [] OTHER -> 2 ^ CH_SCALE
    IN  IF gain = TSL2561_GAIN_1X THEN scale * 16 ELSE scale

\* ((x * scale) mod 2^32) >> CH_SCALE, for x < 2^17 and scale < 2^19:
\* x * scale = (x * (scale div 2^10)) * 2^10 + x * (scale mod 2^10)
ScaleChannel(x, scale) ==
    (x * (scale \div (2 ^ CH_SCALE)) + (x * (scale % (2 ^ CH_SCALE))) \div (2 ^ CH_SCALE))
        % (2 ^ (32 - CH_SCALE))

\* mutant: with channel0 = 0 the ratio is the largest quotient, not 0
Ratio_unguarded(channel0, channel1) ==
    LET d  == IF channel0 # 0 THEN channel0 ELSE 1
        c  == IF channel0 # 0 THEN channel1 % (2 ^ (32 - (RATIO_SCALE + 1)))
              ELSE 2 ^ (32 - (RATIO_SCALE + 1)) - 1
        q1 == c \div d
        r1 == c % d
        q2 == (r1 * 32) \div d
        r2 == (r1 * 32) % d
        q3 == (r2 * 32) \div d
    IN  q1 * 512 + ((q2 * 32 + q3 + 1) \div 2)

\* ratio = (ratio1 + 1) >> 1 with ratio1 = ((channel1 << (RATIO_SCALE + 1)) mod 2^32) / channel0
\* and ratio1 = 0 when channel0 = 0.  The quotient is formed five bits at a time.
Ratio(channel0, channel1) ==
    IF channel0 # 0
    THEN LET c  == channel1 % (2 ^ (32 - (RATIO_SCALE + 1)))
             q1 == c \div channel0
             r1 == c % channel0
             q2 == (r1 * 32) \div channel0
             r2 == (r1 * 32) % channel0
             q3 == (r2 * 32) \div channel0
         IN  q1 * 512 + ((q2 * 32 + q3 + 1) \div 2)
    ELSE (0 + 1) \div 2

Coeff(b, m) == [b |-> b, m |-> m]

\* the switch on device_type: b and m stay 0 when no branch is taken
Coefficients(device_type, ratio) ==
    IF device_type = 1
    THEN IF ratio <= TSL2561_K1C THEN Coeff(TSL2561_B1C, TSL2561_M1C)
         ELSE IF ratio <= TSL2561_K2C THEN Coeff(TSL2561_B2C, TSL2561_M2C)
         ELSE IF ratio <= TSL2561_K3C THEN Coeff(TSL2561_B3C, TSL2561_M3C)
         ELSE IF ratio <= TSL2561_K4C THEN Coeff(TSL2561_B4C, TSL2561_M4C)
         ELSE IF ratio <= TSL2561_K5T THEN Coeff(TSL2561_B5C, TSL2561_M5C)
         ELSE IF ratio <= TSL2561_K6T THEN Coeff(TSL2561_B6C, TSL2561_M6C)
         ELSE IF ratio <= TSL2561_K7T THEN Coeff(TSL2561_B7C, TSL2561_M7C)
         ELSE IF ratio > TSL2561_K8C THEN Coeff(TSL2561_B8C, TSL2561_M8C)
         ELSE Coeff(0, 0)
    ELSE IF ratio <= TSL2561_K1T THEN Coeff(TSL2561_B1T, TSL2561_M1T)
         ELSE IF ratio <= TSL2561_K2T THEN Coeff(TSL2561_B2T, TSL2561_M2T)
         ELSE IF ratio <= TSL2561_K3T THEN Coeff(TSL2561_B3T, TSL2561_M3T)
         ELSE IF ratio <= TSL2561_K4T THEN Coeff(TSL2561_B4T, TSL2561_M4T)
         ELSE IF ratio <= TSL2561_K5T THEN Coeff(TSL2561_B5T, TSL2561_M5T)
         ELSE IF ratio <= TSL2561_K6T THEN Coeff(TSL2561_B6T, TSL2561_M6T)
         ELSE IF ratio <= TSL2561_K7T THEN Coeff(TSL2561_B7T, TSL2561_M7T)
         ELSE IF ratio > TSL2561_K8T THEN Coeff(TSL2561_B8T, TSL2561_M8T)
         ELSE Coeff(0, 0)

\* channel * k for channel < 2^22 and k < 2^10 (below 2^32, so it does not
\* wrap), as <<hi, lo>> with value hi * 2^LUX_SCALE + lo
Product(channel, k) ==
    LET l == (channel % (2 ^ LUX_SCALE)) * k
    IN  <<(channel \div (2 ^ LUX_SCALE)) * k + l \div (2 ^ LUX_SCALE), l % (2 ^ LUX_SCALE)>>

Greater(p, q) == p[1] > q[1] \/ (p[1] = q[1] /\ p[2] > q[2])

\* mutant: the fraction is cut off without the rounding bias
LuxOf_truncating(channel0, channel1, b, m) ==
    LET p0   == Product(channel0, b)
        p1   == Product(channel1, m)
        temp == IF Greater(p1, p0) THEN <<0, 0>>
                ELSE IF p0[2] >= p1[2] THEN <<p0[1] - p1[1], p0[2] - p1[2]>>
                ELSE <<p0[1] - p1[1] - 1, p0[2] - p1[2] + 2 ^ LUX_SCALE>>
    IN  temp[1] % (2 ^ (32 - LUX_SCALE))

\* temp = channel0 * b - channel1 * m, replaced by 0 when channel1 * m is the
\* greater; then temp += 1 << (LUX_SCALE - 1) and lux = temp >> LUX_SCALE
LuxOf(channel0, channel1, b, m) ==
    LET p0   == Product(channel0, b)
        p1   == Product(channel1, m)
        temp == IF Greater(p1, p0) THEN <<0, 0>>
                ELSE IF p0[2] >= p1[2] THEN <<p0[1] - p1[1], p0[2] - p1[2]>>
                ELSE <<p0[1] - p1[1] - 1, p0[2] - p1[2] + 2 ^ LUX_SCALE>>
    IN  (temp[1] + (temp[2] + 2 ^ (LUX_SCALE - 1)) \div (2 ^ LUX_SCALE)) % (2 ^ (32 - LUX_SCALE))

\* mutant: the result is computed only while the session is powered
tsl2561_compute_lux_when_powered(null, info, visible, infrared) ==
    IF _is_init(null, info) /\ info.powered
    THEN LET scale    == ChannelScale(info.integration_time, info.gain)
             channel0 == ScaleChannel(visible + infrared, scale)
             channel1 == ScaleChannel(infrared, scale)
             ratio    == Ratio(channel0, channel1)
             c        == Coefficients(info.device_type, ratio)
         IN  LuxOf(channel0, channel1, c.b, c.m)
    ELSE 0

tsl2561_compute_lux(null, info, visible, infrared) ==
    IF _is_init(null, info)
    THEN LET scale    == ChannelScale(info.integration_time, info.gain)
             channel0 == ScaleChannel(visible + infrared, scale)
             channel1 == ScaleChannel(infrared, scale)
             ratio    == Ratio(channel0, channel1)
             c        == Coefficients(info.device_type, ratio)
         IN  LuxOf(channel0, channel1, c.b, c.m)
    ELSE 0

(* ------------------------------ actions -------------------------------- *)
\* The environment's choices.  The outcome of a transaction that follows a
\* failed one is never used by the code, so it is fixed to ESP_OK / 0.
Fails == BusResults \ {ESP_OK}

\* the caller is between two calls
NoCall == [op |-> "none", null |-> FALSE, outNull |-> FALSE, smbus_info |-> 0,
           integration_time |-> 0, gain |-> 0, visible |-> 0, infrared |-> 0,
           ret |-> ESP_OK, pre |-> ZeroInfo]

Record(op, null, outNull, smbus, it, gain, st) ==
    /\ call = NoCall
    /\ tsl2561_info' = st.info
    /\ device' = st.device
    /\ log' = st.log
    /\ out' = st.out
    /\ call' = [op |-> op, null |-> null, outNull |-> outNull, smbus_info |-> smbus,
                integration_time |-> it, gain |-> gain, visible |-> 0, infrared |-> 0,
                ret |-> st.err, pre |-> tsl2561_info]
    /\ UNCHANGED portTICK_RATE_MS

InitializeWith(ids) ==
    \E null \in BOOLEAN, h \in SmbusHandles, e \in BusResults :
      \E id \in (IF e = ESP_OK /\ ~null THEN ids ELSE {0}) :
        /\ null => e = ESP_OK
        /\ Record("init", null, FALSE, h, 0, 0,
                  tsl2561_init(Start(tsl2561_info, device), null, h, e, id))

Initialize == InitializeWith(IdBytes)

IdentifyWith(ids) ==
    \E null \in BOOLEAN, outNull \in BOOLEAN, e \in BusResults :
      \E id \in (IF e = ESP_OK /\ ~null /\ ~outNull THEN ids ELSE {0}) :
        /\ (null \/ outNull) => e = ESP_OK
        /\ Record("device_id", null, outNull, 0, 0, 0,
                  tsl2561_device_id(Start(tsl2561_info, device), null, outNull, e, id))

Identify == IdentifyWith(IdBytes)

Configure ==
    \E null \in BOOLEAN, it \in IntegrationTimes, gain \in Gains, e1 \in BusResults :
      \E e2 \in (IF e1 = ESP_OK /\ ~null THEN BusResults ELSE {ESP_OK}),
         e3 \in (IF e1 = ESP_OK /\ ~null THEN BusResults ELSE {ESP_OK}) :
        /\ null => e1 = ESP_OK
        /\ Record("set_integration_time_and_gain", null, FALSE, 0, it, gain,
                  tsl2561_set_integration_time_and_gain(Start(tsl2561_info, device),
                                                        null, it, gain, e1, e2, e3))

Read ==
    \E null \in BOOLEAN, outNull \in BOOLEAN, e1 \in BusResults :
      \E e2 \in (IF e1 = ESP_OK /\ ~null /\ ~outNull THEN BusResults ELSE {ESP_OK}) :
        \E e3 \in (IF e1 = ESP_OK /\ e2 = ESP_OK /\ ~null /\ ~outNull THEN BusResults ELSE {ESP_OK}) :
          \E e4 \in (IF e1 = ESP_OK /\ e2 = ESP_OK /\ e3 = ESP_OK /\ ~null /\ ~outNull
                     THEN BusResults ELSE {ESP_OK}),
             v0 \in (IF e1 = ESP_OK /\ e2 = ESP_OK /\ ~null /\ ~outNull THEN ChannelSamples ELSE {0}),
             v1 \in (IF e1 = ESP_OK /\ e2 = ESP_OK /\ e3 = ESP_OK /\ ~null /\ ~outNull
                     THEN ChannelSamples ELSE {0}) :
            /\ (null \/ outNull) => e1 = ESP_OK
            /\ Record("read", null, outNull, 0, 0, 0,
                      tsl2561_read(Start(tsl2561_info, device), null, outNull,
                                   portTICK_RATE_MS, e1, e2, e3, e4, v0, v1))

\* tsl2561_compute_lux returns the lux value, kept in out.lux, and no esp_err_t
Compute ==
    \E null \in BOOLEAN, s \in LuxSamples :
        /\ call = NoCall
        /\ out' = [NoOut EXCEPT !.lux = tsl2561_compute_lux(null, tsl2561_info, s[1], s[2])]
        /\ log' = <<>>
        /\ call' = [NoCall EXCEPT !.op = "compute_lux", !.null = null,
                                  !.visible = s[1], !.infrared = s[2],
                                  !.ret = NoErr, !.pre = tsl2561_info]
        /\ UNCHANGED <<tsl2561_info, device, portTICK_RATE_MS>>

\* the call returns: the caller has taken its result and outputs
Return ==
    /\ call # NoCall
    /\ call' = NoCall
    /\ log' = <<>>
    /\ out' = NoOut
    /\ UNCHANGED <<tsl2561_info, device, portTICK_RATE_MS>>

Init ==
    /\ tsl2561_info = ZeroInfo
    /\ device = (REG_CONTROL :> TSL2561_CONTROL_POWER_DOWN)
    /\ portTICK_RATE_MS \in TickPeriods
    /\ call = NoCall
    /\ log = <<>>
    /\ out = NoOut

Next == Initialize \/ Identify \/ Configure \/ Read \/ Compute \/ Return

Spec == Init /\ [][Next]_vars

\* The identification exchange over every value of the ID byte: a session is
\* initialised, identified, and read (a failed Read leaves it powered).
AllIdBytes == 0 .. 255
InitializeAnyId == InitializeWith(AllIdBytes)
IdentifyAnyId == IdentifyWith(AllIdBytes)
NextIdentify == InitializeAnyId \/ IdentifyAnyId \/ Read \/ Return
SpecIdentify == Init /\ [][NextIdentify]_vars
(* ------------------------- properties of the calls --------------------- *)
\* the four package encodings of tsl2561_device_type_t other than INVALID
RecognisedPackages == {0, 1, 4, 5}

\* the latest call was made on a non-NULL session that was initialised
OnReadySession(op) == call.op = op /\ ~call.null /\ call.pre.init

IsControlWrite(t, v) == t.kind = "write_byte" /\ t.reg = 128 /\ t.val = v
IsTimingWrite(t) == t.kind = "write_byte" /\ t.reg = 129
IsWordRead(t, command) == t.kind = "read_word" /\ t.reg = command
IsDelay(t) == t.kind = "vTaskDelay"

\* the latest call was a tsl2561_init whose ID read succeeded
InitReadId == call.op = "init" /\ ~call.null /\ Len(log) = 1 /\ log[1].err = ESP_OK

\* the documented minimum wait of Read, in milliseconds
MinDelayMs(integration_time) ==
    IF integration_time = 0 THEN 15 ELSE IF integration_time = 1 THEN 120 ELSE 450

\* C1: Initialize whose identification read succeeds with an unrecognised
\* package encoding returns an error and leaves the session initialised with
\* package_type = INVALID.
C1_UnsupportedDeviceIsAnError ==
    (InitReadId /\ (log[1].val \div 16) % 16 \notin RecognisedPackages)
        => /\ call.ret # ESP_OK
           /\ tsl2561_info.init
           /\ tsl2561_info.device_type = 15

\* C2: whatever the integration time held by the session and the tick period,
\* the wait Read requests (ticks times tick period) is at least 15, 120 or
\* 450 ms, and it is requested before the first channel register read.
C2_ReadDelayLowerBound ==
    call.op = "read" =>
        /\ \A i \in DOMAIN log : IsDelay(log[i]) =>
              log[i].val * portTICK_RATE_MS >= MinDelayMs(call.pre.integration_time)
        /\ \A j \in DOMAIN log : log[j].kind = "read_word" =>
              \E i \in 1 .. (j - 1) : IsDelay(log[i])

C2_Witness ==
    /\ call.op = "read"
    /\ portTICK_RATE_MS > 1
    /\ call.pre.integration_time = 0
    /\ \E j \in DOMAIN log : log[j].kind = "read_word"

\* C3: after a Read or Configure that returns success the powered flag is
\* false and the last control-register write of the call was a successful
\* power-down, whatever the powered state was before the call.
C3_PowerSymmetry ==
    (call.op \in {"read", "set_integration_time_and_gain"} /\ call.ret = ESP_OK)
        => /\ ~tsl2561_info.powered
           /\ LET ctl == SelectSeq(log, LAMBDA t : t.kind = "write_byte" /\ t.reg = 128)
              IN  /\ Len(ctl) >= 1
                  /\ ctl[Len(ctl)].val = 0
                  /\ ctl[Len(ctl)].err = ESP_OK

C3_Witness ==
    /\ call.op = "read"
    /\ call.ret = ESP_OK
    /\ call.pre.powered
    /\ ~tsl2561_info.powered

\* C4: Configure returns the power-up error and writes nothing more when the
\* power-up write fails; otherwise it issues the timing write and then a
\* power-down write, and returns the power-down error if that write failed
\* and the result of the timing write if not.
C4_ConfigureErrorPrecedence ==
    OnReadySession("set_integration_time_and_gain") =>
        LET rest == IF call.pre.powered THEN log ELSE Tail(log)
        IN  /\ ~call.pre.powered => (Len(log) >= 1 /\ IsControlWrite(log[1], 3))
            /\ (~call.pre.powered /\ log[1].err # ESP_OK)
                  => (call.ret = log[1].err /\ Len(log) = 1)
            /\ (call.pre.powered \/ log[1].err = ESP_OK)
                  => /\ Len(rest) = 2
                     /\ IsTimingWrite(rest[1])
                     /\ IsControlWrite(rest[2], 0)
                     /\ call.ret = IF rest[2].err # ESP_OK THEN rest[2].err ELSE rest[1].err

C4_Witness ==
    /\ OnReadySession("set_integration_time_and_gain")
    /\ Len(log) = 3
    /\ log[2].err = ESP_FAIL
    /\ log[3].err = ESP_ERR_TIMEOUT
    /\ call.ret = ESP_ERR_TIMEOUT

\* C5: a successful Read issues, in this order and once each, the power-up
\* write (omitted exactly when the session was already powered), one delay,
\* the word read of channel 0 (0x0C), the word read of channel 1 (0x0E) and
\* the power-down write, and nothing else.
C5_ReadSequence ==
    (call.op = "read" /\ call.ret = ESP_OK) =>
        LET k == IF call.pre.powered THEN 0 ELSE 1
        IN  /\ Len(log) = k + 4
            /\ k = 1 => IsControlWrite(log[1], 3)
            /\ IsDelay(log[k + 1])
            /\ IsWordRead(log[k + 2], 172)
            /\ IsWordRead(log[k + 3], 174)
            /\ IsControlWrite(log[k + 4], 0)

C5_Witness ==
    /\ call.op = "read"
    /\ call.ret = ESP_OK
    /\ call.pre.powered
    /\ Len(log) = 4

\* C6: when a channel word read of Read fails, it is the last transaction of
\* the call (no further channel read, no power-down write), the session stays
\* powered, Read returns that error and the outputs are not written.
C6_ReadShortCircuit ==
    call.op = "read" =>
        \A i \in DOMAIN log : (log[i].kind = "read_word" /\ log[i].err # ESP_OK) =>
            /\ i = Len(log)
            /\ \A j \in DOMAIN log : ~IsControlWrite(log[j], 0)
            /\ tsl2561_info.powered
            /\ call.ret = log[i].err
            /\ out.visible = Unwritten
            /\ out.infrared = Unwritten

C6_Witness ==
    /\ call.op = "read"
    /\ Len(log) >= 3
    /\ IsWordRead(log[Len(log) - 1], 172) /\ log[Len(log) - 1].err = ESP_OK
    /\ IsWordRead(log[Len(log)], 174) /\ log[Len(log)].err = ESP_ERR_TIMEOUT
    /\ call.ret = ESP_ERR_TIMEOUT

\* C7: Identify, Configure and Read on a session that is not initialised
\* return an error, issue no transaction and no delay, leave the session
\* unchanged and write no output.
C7_InitGate ==
    (call.op \in {"device_id", "set_integration_time_and_gain", "read"} /\ ~call.pre.init)
        => /\ call.ret # ESP_OK
           /\ log = <<>>
           /\ tsl2561_info = call.pre
           /\ out = NoOut

C7_Witness ==
    /\ call.op = "read"
    /\ ~call.null /\ ~call.outNull
    /\ call.pre = ZeroInfo
    /\ call.ret = ESP_FAIL

\* C8: Initialize issues exactly one transaction, the byte read of the ID
\* register (0x0A with the command bit); when the byte holds a recognised
\* package, it returns success with initialized, not powered, 402 ms, 1x and
\* package_type = the upper four bits, whatever the session held before.
C8_InitOneReadAndDefaults ==
    (call.op = "init" /\ ~call.null) =>
        /\ Len(log) = 1
        /\ log[1].kind = "read_byte" /\ log[1].reg = 138
        /\ (log[1].err = ESP_OK /\ (log[1].val \div 16) % 16 \in RecognisedPackages)
              => /\ call.ret = ESP_OK
                 /\ tsl2561_info = [init |-> TRUE, powered |-> FALSE,
                                    smbus_info |-> call.smbus_info,
                                    device_type |-> (log[1].val \div 16) % 16,
                                    integration_time |-> 2, gain |-> 0]

C8_Witness ==
    /\ InitReadId
    /\ call.ret = ESP_OK
    /\ call.pre.powered
    /\ call.pre.integration_time = 0
    /\ call.pre.gain = 16
    /\ tsl2561_info.device_type = 4

\* C9 (as claimed): initialized implies that package_type is one of the four
\* recognised encodings.
C9_InitImpliesRecognised ==
    tsl2561_info.init => tsl2561_info.device_type \in RecognisedPackages

\* C9 (amended): initialized implies that package_type is a recognised
\* encoding or INVALID; every Initialize leaves the session initialised, and
\* package_type is recognised exactly when its ID read succeeded with a
\* recognised encoding, and INVALID otherwise.
C9_InitAndPackageType ==
    /\ tsl2561_info.init => tsl2561_info.device_type \in RecognisedPackages \union {15}
    /\ (call.op = "init" /\ ~call.null) =>
          /\ tsl2561_info.init
          /\ tsl2561_info.device_type =
                IF log[1].err = ESP_OK /\ (log[1].val \div 16) % 16 \in RecognisedPackages
                THEN (log[1].val \div 16) % 16
                ELSE 15

C9_Witness ==
    /\ call.op = "init" /\ ~call.null
    /\ log[1].err # ESP_OK
    /\ call.pre.init /\ call.pre.device_type \in RecognisedPackages
    /\ tsl2561_info.init
    /\ tsl2561_info.device_type = 15

\* C10 (as claimed): when Configure returns an error, integration_time and
\* gain are what they were before the call.
C10_FailedConfigureChangesNothing ==
    (OnReadySession("set_integration_time_and_gain") /\ call.ret # ESP_OK)
        => /\ tsl2561_info.integration_time = call.pre.integration_time
           /\ tsl2561_info.gain = call.pre.gain

\* C10 (amended): when Configure returns an error and its timing write was
\* not issued or failed, integration_time and gain are what they were before
\* the call; when the timing write succeeded they are the arguments, also
\* when the power-down that follows fails and Configure returns its error.
C10_ConfigureFollowsTimingWrite ==
    OnReadySession("set_integration_time_and_gain") =>
        IF \E i \in DOMAIN log : IsTimingWrite(log[i]) /\ log[i].err = ESP_OK
        THEN /\ tsl2561_info.integration_time = call.integration_time
             /\ tsl2561_info.gain = call.gain
        ELSE /\ call.ret # ESP_OK
             /\ tsl2561_info.integration_time = call.pre.integration_time
             /\ tsl2561_info.gain = call.pre.gain

C10_Witness ==
    /\ OnReadySession("set_integration_time_and_gain")
    /\ call.ret # ESP_OK
    /\ \E i \in DOMAIN log : IsTimingWrite(log[i]) /\ log[i].err = ESP_OK
    /\ tsl2561_info.integration_time = call.integration_time
    /\ tsl2561_info.integration_time # call.pre.integration_time
    /\ tsl2561_info.gain # call.pre.gain

\* C11: a Configure that returns success wrote exactly one byte to the timing
\* register (0x01 with the command bit), the integration-time code ORed with
\* the gain code, after the power-up and before the power-down, and leaves
\* the session's integration_time and gain equal to the arguments.
C11_ConfigureWritesTimingByte ==
    (OnReadySession("set_integration_time_and_gain") /\ call.ret = ESP_OK) =>
        LET tw == {i \in DOMAIN log : IsTimingWrite(log[i])}
        IN  /\ Cardinality(tw) = 1
            /\ \A i \in tw :
                  \* the codes share no bit, so their OR is their sum
                  /\ log[i].val = call.integration_time + call.gain
                  /\ log[i].err = ESP_OK
                  /\ i = Len(log) - 1
                  /\ IsControlWrite(log[Len(log)], 0)
                  /\ ~call.pre.powered => (i = 2 /\ IsControlWrite(log[1], 3))
            /\ tsl2561_info.integration_time = call.integration_time
            /\ tsl2561_info.gain = call.gain

C11_Witness ==
    /\ OnReadySession("set_integration_time_and_gain")
    /\ call.ret = ESP_OK
    /\ call.integration_time = 1 /\ call.gain = 16
    /\ Len(log) = 3 /\ log[2].val = 17
    /\ tsl2561_info.integration_time = 1 /\ tsl2561_info.gain = 16

\* C12: a successful Read returns visible = (ch0 - ch1) mod 2^16 and
\* infrared = ch1 for the two register values read; visible wraps when
\* ch1 > ch0.
C12_ReadOutputs ==
    (call.op = "read" /\ call.ret = ESP_OK) =>
        \A i, j \in DOMAIN log : (IsWordRead(log[i], 172) /\ IsWordRead(log[j], 174)) =>
            /\ out.visible = IF log[i].val >= log[j].val
                             THEN log[i].val - log[j].val
                             ELSE log[i].val - log[j].val + 65536
            /\ out.infrared = log[j].val

C12_Witness ==
    /\ call.op = "read" /\ call.ret = ESP_OK
    /\ \E i, j \in DOMAIN log :
          /\ IsWordRead(log[i], 172) /\ log[i].val = 100
          /\ IsWordRead(log[j], 174) /\ log[j].val = 1000
    /\ out.visible = 64636
    /\ out.infrared = 1000

\* the upper and lower four bits of a byte
UpperBits(id) == CHOOSE h \in 0 .. 15 : \E l \in 0 .. 15 : id = 16 * h + l
LowerBits(id) == CHOOSE l \in 0 .. 15 : \E h \in 0 .. 15 : id = 16 * h + l

\* C13: for every ID byte 0..255, Identify on an initialised session issues
\* exactly one byte read of the ID register and no write, leaves the session
\* as it was, and returns package_type = upper four bits and revision = lower
\* four bits, powered or not; when the read fails it returns that error and
\* writes no output.
C13_IdentifyDecodes ==
    (OnReadySession("device_id") /\ ~call.outNull) =>
        /\ Len(log) = 1
        /\ log[1].kind = "read_byte" /\ log[1].reg = 138
        /\ tsl2561_info = call.pre
        /\ call.ret = log[1].err
        /\ log[1].err = ESP_OK => /\ out.device = UpperBits(log[1].val)
                                  /\ out.revision = LowerBits(log[1].val)
        /\ log[1].err # ESP_OK => out = NoOut

C13_Witness ==
    /\ OnReadySession("device_id")
    /\ call.pre.powered
    /\ log[1].val = 26 /\ log[1].err = ESP_OK
    /\ out.device = 1
    /\ out.revision = 10

(* --------------------- properties of tsl2561_compute_lux --------------- *)
\* The reference procedure, in unbounded integers.  The scale at 1x gain is
\* the base scale times 16, so (x * scale) >> 10 is (x * base) div 64.
RefBase(integration_time) ==
    IF integration_time = 0 THEN 29975 ELSE IF integration_time = 1 THEN 4071 ELSE 1024

RefChannel(x, integration_time, gain) ==
    IF gain = 0 THEN (x * RefBase(integration_time)) \div 64
    ELSE (x * RefBase(integration_time)) \div 1024

\* <<threshold, intercept, slope>>, in the order of the thresholds
RefTable(family) ==
    IF family = "CS"
    THEN << <<67, 516, 429>>, <<133, 552, 705>>, <<200, 595, 867>>, <<266, 642, 991>>,
            <<312, 375, 477>>, <<410, 257, 295>>, <<666, 55, 43>>, <<666, 0, 0>> >>
    ELSE << <<64, 498, 446>>, <<128, 532, 721>>, <<192, 575, 891>>, <<256, 624, 1022>>,
            <<312, 367, 508>>, <<410, 210, 251>>, <<666, 24, 18>>, <<666, 0, 0>> >>

RefLux(family, integration_time, gain, visible, infrared) ==
    LET channel0 == RefChannel(visible + infrared, integration_time, gain)
        channel1 == RefChannel(infrared, integration_time, gain)
        ratio    == IF channel0 = 0 THEN 0
                    ELSE ((channel1 * 1024) \div channel0 + 1) \div 2
        t        == RefTable(family)
        hits     == {k \in 1 .. 8 : ratio <= t[k][1]}
        row      == IF hits = {} THEN <<0, 0, 0>>
                    ELSE t[CHOOSE k \in hits : \A j \in hits : k <= j]
        raw      == IF channel1 * row[3] > channel0 * row[2] THEN 0
                    ELSE channel0 * row[2] - channel1 * row[3]
    IN  (raw + 8192) \div 16384

\* the counts the device can return in one integration period
InCountRange(integration_time, visible, infrared) ==
    visible + infrared <= (IF integration_time = 0 THEN 5047
                           ELSE IF integration_time = 1 THEN 37177 ELSE 65535)

\* The coefficient set of a package type.  Which set TSL2560CS (0b0000) gets
\* is the subject of C21; here either is accepted for it.
RefFamilies(device_type) ==
    IF device_type = 1 THEN {"CS"}
    ELSE IF device_type = 0 THEN {"CS", "T"}
    ELSE {"T"}

\* C14: for every configuration of an initialised session and every input
\* within the device's count range, Compute returns the value of the
\* reference procedure; 402 ms, 1x, T/FN/CL, visible 900, infrared 100 gives 443.
C14_ComputeIsReference ==
    (OnReadySession("compute_lux")
       /\ InCountRange(call.pre.integration_time, call.visible, call.infrared)) =>
        /\ \E family \in RefFamilies(call.pre.device_type) :
              out.lux = RefLux(family, call.pre.integration_time, call.pre.gain,
                               call.visible, call.infrared)
        /\ (/\ call.pre.integration_time = 2 /\ call.pre.gain = 0
            /\ call.pre.device_type \in {4, 5}
            /\ call.visible = 900 /\ call.infrared = 100) => out.lux = 443

C14_Witness ==
    /\ OnReadySession("compute_lux")
    /\ call.pre.integration_time = 2 /\ call.pre.gain = 0
    /\ call.pre.device_type = 5
    /\ call.visible = 900 /\ call.infrared = 100
    /\ out.lux = 443

\* C15: when the scaled channel 0 is 0, in particular for visible = 0 and
\* infrared = 0, Compute does not divide: the ratio is 0 and the result is 0.
C15_ZeroChannelGivesZero ==
    OnReadySession("compute_lux") =>
        LET scale    == ChannelScale(call.pre.integration_time, call.pre.gain)
            channel0 == ScaleChannel(call.visible + call.infrared, scale)
            channel1 == ScaleChannel(call.infrared, scale)
        IN  /\ (call.visible = 0 /\ call.infrared = 0) => channel0 = 0
            /\ channel0 = 0 => (Ratio(channel0, channel1) = 0 /\ out.lux = 0)

C15_Witness ==
    /\ OnReadySession("compute_lux")
    /\ call.visible = 0 /\ call.infrared = 0
    /\ call.pre.integration_time = 0 /\ call.pre.gain = 16
    /\ out.lux = 0

\* C16: the result of Compute is determined by visible, infrared, gain,
\* integration_time and package_type: it is the result for every session
\* with these values, whatever its powered flag and bus handle, and whatever
\* calls came before.
C16_ComputeDependsOnFiveValues ==
    OnReadySession("compute_lux") =>
        \A p \in BOOLEAN, h \in 0 .. MaxHandle :
            out.lux = tsl2561_compute_lux(FALSE,
                          [call.pre EXCEPT !.powered = p, !.smbus_info = h],
                          call.visible, call.infrared)

C16_Witness ==
    /\ OnReadySession("compute_lux")
    /\ call.pre.powered
    /\ call.pre.integration_time = 1 /\ call.pre.gain = 16
    /\ call.visible = 900 /\ call.infrared = 100
    /\ out.lux > 0

(* ------------------- delays, power and frame properties ---------------- *)
Delays == {i \in DOMAIN log : IsDelay(log[i])}

\* the call's power-up step returned success: the session was powered, or
\* the power-up write was issued and succeeded
PowerUpSucceeded ==
    /\ ~call.null /\ ~call.outNull /\ call.pre.init
    /\ call.pre.powered \/ (Len(log) >= 1 /\ IsControlWrite(log[1], 3) /\ log[1].err = ESP_OK)

\* C17 (as claimed): every Read and every Configure whose power-up step
\* succeeds performs exactly one delay, and Initialize, Identify and Compute
\* perform none.
C17_ReadAndConfigureDelayOnce ==
    /\ (call.op \in {"read", "set_integration_time_and_gain"} /\ PowerUpSucceeded)
          => Cardinality(Delays) = 1
    /\ call.op \in {"init", "device_id", "compute_lux"} => Delays = {}

\* C17 (amended): every Read whose power-up step succeeds performs exactly
\* one delay; a Read whose power-up step fails or is not reached, and every
\* Configure, Initialize, Identify and Compute, performs none.
C17_OnlyReadDelays ==
    /\ (call.op = "read" /\ PowerUpSucceeded) => Cardinality(Delays) = 1
    /\ (call.op = "read" /\ ~PowerUpSucceeded) => Delays = {}
    /\ call.op \in {"set_integration_time_and_gain", "init", "device_id", "compute_lux"}
          => Delays = {}

C17_Witness ==
    /\ call.op = "set_integration_time_and_gain"
    /\ PowerUpSucceeded
    /\ call.ret = ESP_OK
    /\ Len(log) = 3
    /\ Delays = {}

\* C18: every word read of a channel register (0x0C, 0x0E) and every write
\* of the timing register is issued while the session's powered flag is true.
C18_ChannelAndTimingNeedPower ==
    \A i \in DOMAIN log :
        (IsWordRead(log[i], 172) \/ IsWordRead(log[i], 174) \/ IsTimingWrite(log[i]))
            => log[i].powered

C18_Witness ==
    /\ call.op = "read"
    /\ ~call.pre.powered
    /\ \E i \in DOMAIN log : IsWordRead(log[i], 174) /\ log[i].powered

\* C19: the powered flag is true exactly when the last value successfully
\* written to the device's control register is power-up (0x03), the device
\* starting powered down.
C19_PoweredTracksDevice ==
    tsl2561_info.powered <=> (device[0] = 3)

\* C20 (as claimed): once an Initialize has returned, no later operation
\* changes package_type; Configure and Read leave initialized and the bus
\* handle unchanged; Identify and Compute change no field and Compute issues
\* no bus transaction.
C20_PackageTypeNeverChanges ==
    /\ (call.op # "none" /\ call.pre.init)
          => tsl2561_info.device_type = call.pre.device_type
    /\ call.op \in {"set_integration_time_and_gain", "read"}
          => /\ tsl2561_info.init = call.pre.init
             /\ tsl2561_info.smbus_info = call.pre.smbus_info
    /\ call.op \in {"device_id", "compute_lux"} => tsl2561_info = call.pre
    /\ call.op = "compute_lux" => log = <<>>

\* C20 (amended): once an Initialize has returned, no later Identify,
\* Configure, Read or Compute changes package_type (a later Initialize
\* determines it anew); Configure and Read leave initialized and the bus
\* handle unchanged; Identify and Compute change no field and Compute issues
\* no bus transaction.
C20_OnlyInitializeSetsPackageType ==
    /\ call.op \in {"device_id", "set_integration_time_and_gain", "read", "compute_lux"}
          => tsl2561_info.device_type = call.pre.device_type
    /\ call.op \in {"set_integration_time_and_gain", "read"}
          => /\ tsl2561_info.init = call.pre.init
             /\ tsl2561_info.smbus_info = call.pre.smbus_info
    /\ call.op \in {"device_id", "compute_lux"} => tsl2561_info = call.pre
    /\ call.op = "compute_lux" => log = <<>>

C20_Witness ==
    /\ OnReadySession("device_id")
    /\ log # <<>> /\ log[1].err = ESP_OK
    /\ out.device = 4
    /\ call.pre.device_type = 1
    /\ tsl2561_info.device_type = 1

(* ------------------- coefficient family, width, round trip ------------- *)
\* the coefficient set the package families stand for: chipscale for both
\* CS package types, T/FN/CL for every other value of device_type
FamilyOf(device_type) == IF device_type \in {0, 1} THEN "CS" ELSE "T"

\* the <<intercept, slope>> pair of a family's set for a ratio
RefCoeff(family, ratio) ==
    LET t    == RefTable(family)
        hits == {k \in 1 .. 8 : ratio <= t[k][1]}
    IN  IF hits = {} THEN Coeff(0, 0)
        ELSE LET k == CHOOSE i \in hits : \A j \in hits : i <= j
             IN  Coeff(t[k][2], t[k][3])

\* C21: Compute takes its coefficients from the chipscale set for package
\* types 0b0000 and 0b0001, and from the T/FN/CL set for 0b0100, 0b0101 and
\* the unrecognized package type.
C21_CoefficientsByFamily ==
    OnReadySession("compute_lux") =>
        LET scale    == ChannelScale(call.pre.integration_time, call.pre.gain)
            channel0 == ScaleChannel(call.visible + call.infrared, scale)
            channel1 == ScaleChannel(call.infrared, scale)
            ratio    == Ratio(channel0, channel1)
            c        == RefCoeff(FamilyOf(call.pre.device_type), ratio)
        IN  /\ Coefficients(call.pre.device_type, ratio) = c
            /\ out.lux = LuxOf(channel0, channel1, c.b, c.m)

\* (x * scale) >> CH_SCALE without the reduction to 32 bits, for x < 2^17:
\* the product x * scale is below 2^32 exactly when this is below 2^22
UnboundedScaleChannel(x, scale) ==
    x * (scale \div (2 ^ CH_SCALE)) + (x * (scale % (2 ^ CH_SCALE))) \div (2 ^ CH_SCALE)

\* a <<hi, lo>> product is below 2^32
FitsWord(p) == p[1] < 2 ^ (32 - LUX_SCALE)

\* C22: in every Compute on an initialised session, for every 16-bit visible
\* and infrared value, the products (visible + infrared) * scale and
\* infrared * scale, the shift channel1 << 10 and the products
\* channel0 * intercept and channel1 * slope are below 2^32, so each 32-bit
\* value equals the unbounded one.
C22_NoOverflow ==
    OnReadySession("compute_lux") =>
        LET scale    == ChannelScale(call.pre.integration_time, call.pre.gain)
            full0    == UnboundedScaleChannel(call.visible + call.infrared, scale)
            full1    == UnboundedScaleChannel(call.infrared, scale)
            channel0 == ScaleChannel(call.visible + call.infrared, scale)
            channel1 == ScaleChannel(call.infrared, scale)
            c        == Coefficients(call.pre.device_type, Ratio(channel0, channel1))
        IN  /\ full0 < 2 ^ (32 - CH_SCALE) /\ channel0 = full0
            /\ full1 < 2 ^ (32 - CH_SCALE) /\ channel1 = full1
            /\ channel1 < 2 ^ (32 - (RATIO_SCALE + 1))
            /\ FitsWord(Product(channel0, c.b))
            /\ FitsWord(Product(channel1, c.m))

\* C23: after every successful Read of register values ch0 and ch1, the
\* channel values that Compute forms from Read's outputs are the register
\* values: visible + infrared = ch0 and infrared = ch1, and so the scaled
\* channel 0 is the scaled ch0, also when ch1 > ch0.
C23_ReadComputeRoundTrip ==
    (call.op = "read" /\ call.ret = ESP_OK) =>
        \A i, j \in DOMAIN log : (IsWordRead(log[i], 172) /\ IsWordRead(log[j], 174)) =>
            LET scale == ChannelScale(tsl2561_info.integration_time, tsl2561_info.gain)
            IN  /\ out.visible + out.infrared = log[i].val
                /\ out.infrared = log[j].val
                /\ ScaleChannel(out.visible + out.infrared, scale)
                      = ScaleChannel(log[i].val, scale)
                /\ ScaleChannel(out.infrared, scale) = ScaleChannel(log[j].val, scale)

\* the steps of tsl2561_compute_lux after the scaling never exceed 32 bits
ScaledStepsFit ==
    OnReadySession("compute_lux") =>
        LET scale    == ChannelScale(call.pre.integration_time, call.pre.gain)
            channel0 == ScaleChannel(call.visible + call.infrared, scale)
            channel1 == ScaleChannel(call.infrared, scale)
            c        == Coefficients(call.pre.device_type, Ratio(channel0, channel1))
        IN  /\ channel1 < 2 ^ (32 - (RATIO_SCALE + 1))
            /\ FitsWord(Product(channel0, c.b))
            /\ FitsWord(Product(channel1, c.m))

\* the round trip of C23 holds whenever channel 1 does not exceed channel 0
RoundTripWithoutWrap ==
    (call.op = "read" /\ call.ret = ESP_OK) =>
        \A i, j \in DOMAIN log :
            (IsWordRead(log[i], 172) /\ IsWordRead(log[j], 174) /\ log[j].val <= log[i].val)
                => (out.visible + out.infrared = log[i].val /\ out.infrared = log[j].val)
====
